---- MODULE Spec2Model ----
(***************************************************************************)
(* The incremental backup engine of AIOS/backup_core/rust_backup           *)
(* (RustBackupCore and its Python wrapper PyRustBackupCore), and the       *)
(* function greedy_knapsack of AIOS/fractal_core/rust_fractal.             *)
(*                                                                         *)
(* The filesystem is modelled by four pieces: the project tree under the   *)
(* working directory, the Active Mirror (active_backup/), the Archive      *)
(* (archive_backup/) and the two JSON files of the backup root.  An engine *)
(* instance owns the in-memory checksum map and the last timestamp.  One   *)
(* call of create_backup is a sequence of file operations: a walk of the   *)
(* enumeration, the read or insertion of one loop iteration, a read of     *)
(* current_dir, the clearing of the archive, and for every fs::copy and    *)
(* fs::write the open of its destination and the write of its bytes.       *)
(* Other engines and other processes act between any two of them.  Each    *)
(* operation returns Ok or fails at its `?`.                               *)
(* The constructor is two operations, one per JSON file it reads.          *)
(*                                                                         *)
(* Specifications:                                                         *)
(*   Spec       one engine; source files are edited between its calls      *)
(*   Spec2      two engines on one backup root, their calls interleaved    *)
(*   SpecChdir  one engine while the working directory changes             *)
(*   SpecEnum   get_files_to_backup over any source tree and switches      *)
(*   SpecNew    RustBackupCore::new over any state of the two JSON files   *)
(*   SpecTamper one engine while files of active_backup/ are altered       *)
(*   SpecEdit   one engine while source files are edited during its calls  *)
(*   SpecDelete one engine while source files are deleted during its calls *)
(*   SpecSeq    two engines on one backup root, called one at a time       *)
(*   SpecKnap   greedy_knapsack of rust_fractal over any small arguments   *)
(***************************************************************************)
EXTENDS Naturals, Sequences, FiniteSets

\* Bounds of the model: how many create_backup calls a behaviour makes, and
\* how many operations other processes make on the source files while the
\* calls of SpecEdit run.
MaxRuns == 3
MaxEdits == 2

\* ------------------------------------------------------------------ data

NoFile == "nofile"
NoEntry == "noentry"

\* What a source file can hold: the one byte "A" or the one byte "B".
Contents == {"A", "B"}
FileStates == Contents \cup {NoFile}

\* What a file holds between the open and the write of the fs::copy or
\* fs::write that writes it, and for good when that write fails: the file is
\* created or truncated, its bytes are not written.  It can be read as
\* any file can.
Torn == "torn"
CopyStates == FileStates \cup {Torn}

\* A write at offset 0 into an open file that holds cur: the bytes written
\* replace as many bytes of the file, and the contents of the model are of
\* one length; a write of no byte leaves what another writer has put into
\* the file since it was opened.
Overwrite(cur, bytes) == IF bytes = Torn THEN cur ELSE bytes

\* std::env::current_dir() of the process.
ProjectRoot == <<"proj">>

\* The files that may exist below the project root.  The backup runs are
\* modelled over the first two; the enumerator is also applied to trees with
\* files below skipped directory names, a main file, the two JSON files of a
\* backup root (the repository's backup_core, or one inside data_core), the
\* copy of data_core/x.txt in the active backup of the latter, and a regular
\* file that has the name of a core directory.
XFile == <<"data_core", "x.txt">>
CFile == <<"config", "c.json">>
PFile == <<"data_core", "__pycache__", "x.pyc">>
BFile == <<"data_core", "bk", "file_checksums.json">>
MFile == <<"main.py">>
GFile == <<"config", ".git", "HEAD">>
LFile == <<"log", "node_modules", "n.log">>
KFile == <<"backup_core", "file_checksums.json">>
UFile == <<"utils_core">>
TFile == <<"data_core", "bk", "backup_tracking.json">>
JFile == <<"backup_core", "backup_tracking.json">>
AFile == <<"data_core", "bk", "active_backup", "data_core", "x.txt">>

RelPaths == {XFile, CFile}
EnumPaths ==
    {XFile, PFile, BFile, MFile, CFile, GFile, LFile, KFile, UFile, TFile,
     JFile, AFile}

\* let core_dirs = vec![...]: the directories in the order they are walked
core_dir_list ==
    <<"carma_core", "data_core", "dream_core", "enterprise_core", "luna_core",
      "streamlit_core", "support_core", "utils_core">>
core_dirs == {core_dir_list[i] : i \in 1..Len(core_dir_list)}
main_files == {"main.py", "requirements.txt", "README.md"}
stop_set == {".git", "__pycache__", ".pytest_cache", "node_modules"}

\* Path::join of the working directory and a relative path.
Join(dir, rel) == dir \o rel

\* Variant: every path counts as lying below the directory.
starts_with_any(path, dir) == TRUE

\* Path::strip_prefix is Ok exactly when dir is a prefix of path ...
starts_with(path, dir) ==
    Len(path) >= Len(dir) /\ SubSeq(path, 1, Len(dir)) = dir

\* ... and then yields the rest of the path.
strip_prefix(path, dir) == SubSeq(path, Len(dir) + 1, Len(path))

AbsPaths == {Join(ProjectRoot, r) : r \in RelPaths}

\* Sha256 of a file's content, hex encoded.  The digest is modelled as a
\* tagged value: equal contents give equal digests, different contents
\* different digests (no collision among the model's contents).
Fingerprint(content) == <<"sha256", content>>
Fingerprints == {Fingerprint(c) : c \in Contents}

\* HashMap<String, String>: a total function with NoEntry for absent keys.
EmptyStore == [k \in AbsPaths |-> <<NoEntry>>]
EmptyDir == [r \in RelPaths |-> NoFile]

\* Variant: only the different fingerprints are counted.
StoreLenDistinct(m) ==
    Cardinality({m[k] : k \in AbsPaths} \ {<<NoEntry>>})

\* HashMap::len
StoreLen(m) == Cardinality({k \in AbsPaths : m[k] # <<NoEntry>>})

\* The number of characters of a path written out: a separator and the
\* name, for each of its components.
RECURSIVE PathLen(_)
PathLen(path) ==
    IF path = <<>> THEN 0 ELSE 1 + Len(Head(path)) + PathLen(Tail(path))

\* The number of hex digits of a Sha256 digest.
DigestLen == 64

RECURSIVE EntriesLen(_, _)
EntriesLen(m, keys) ==
    IF keys = {} THEN 0
    ELSE LET k == CHOOSE k \in keys : TRUE
         IN  PathLen(k) + DigestLen + 10 + EntriesLen(m, keys \ {k})

\* The number of characters of serde_json::to_string_pretty of the map:
\* "{}" for the empty map; otherwise "{", a line of two blanks, the quoted
\* key, ": " and the quoted digest for every entry, the lines ended by
\* commas but for the last, and "}" on a line of its own.
JsonLen(m) ==
    EntriesLen(m, {k \in AbsPaths : m[k] # <<NoEntry>>}) + 2

Engines == {1, 2}

\* SystemTime::now().duration_since(UNIX_EPOCH).as_secs(), two sample values
Seconds == {1, 2}

\* The two JSON files of the backup root.
CsName == "file_checksums.json"
TrackName == "backup_tracking.json"
JsonFiles == {CsName, TrackName}

\* How the text of a JSON file can fail the constructor's parsing: it is
\* JSON of another shape, it is text that is not JSON, or it is not UTF-8.
GarbleKinds == {"shape", "text", "bytes"}
NotGarbled == [n \in JsonFiles |-> "no"]

\* The backup root the engine is constructed on (an absolute path): the
\* repository's own, or one inside an always-included directory.
BackupCore == Join(ProjectRoot, <<"backup_core">>)
BackupDirs == {BackupCore, Join(ProjectRoot, <<"data_core", "bk">>)}

\* Another directory the process can make its working directory.
OtherRoot == <<"elsewhere">>

\* ------------------------------------------------------------- enumerator

\* path.components().any(|c| c is one of the skipped directory names)
HasStopComponent(path) == \E i \in 1..Len(path) : path[i] \in stop_set

\* Variant: the core directories are walked only when include_data is set.
IsCandidateData(dir, rel, include_data, include_logs, include_config) ==
    \/ include_data /\ rel[1] \in core_dirs
          /\ ~HasStopComponent(Join(dir, rel))
    \/ Len(rel) = 1 /\ rel[1] \in main_files
    \/ include_config /\ rel[1] = "config"
    \/ include_logs /\ rel[1] = "log"

\* Whether get_files_to_backup pushes the existing file rel of directory dir.
\* WalkDir yields a root that is a regular file as its only entry, so a file
\* named as a walked directory is pushed too.
IsCandidate(dir, rel, include_data, include_logs, include_config) ==
    \/ rel[1] \in core_dirs /\ ~HasStopComponent(Join(dir, rel))
    \/ Len(rel) = 1 /\ rel[1] \in main_files
    \/ include_config /\ rel[1] = "config"
    \/ include_logs /\ rel[1] = "log"

\* The walks of get_files_to_backup in the order of its statements: the
\* core directories, the main files, config, log.
WalkUnits == <<"core", "main", "config", "log">>

\* The relative paths the walk u can meet.
InUnit(rel, u) ==
    CASE u = "core" -> rel[1] \in core_dirs
      [] u = "main" -> Len(rel) = 1 /\ rel[1] \in main_files
      [] u = "config" -> rel[1] = "config"
      [] u = "log" -> rel[1] = "log"

\* The sequences without repetition over the set S.
Perms(S) ==
    {q \in [1..Cardinality(S) -> S] :
        \A i, j \in 1..Cardinality(S) : q[i] = q[j] => i = j}

\* The place of the relative path's first component in the vec of the core
\* directories (0: it is none of them).
CoreIndex(rel) ==
    IF rel[1] \in core_dirs
    THEN CHOOSE i \in 1..Len(core_dir_list) : core_dir_list[i] = rel[1]
    ELSE 0

\* The absolute paths one walk of get_files_to_backup pushes, in every order
\* it can push them: WalkDir is used without sort_by, so the entries of a
\* directory come in the order of fs::read_dir, which the file system
\* decides; the core directories are walked one after the other in the
\* order of the vec.  (The main files are probed in the order of their vec;
\* the model has one of them.)
WalkUnit(t, dir, u, include_data, include_logs, include_config) ==
    {[i \in DOMAIN q |-> Join(dir, q[i])] : q \in
        {p \in Perms({r \in DOMAIN t :
                         /\ t[r] # NoFile
                         /\ InUnit(r, u)
                         /\ IsCandidate(dir, r, include_data, include_logs,
                                        include_config)}) :
            \A i, j \in DOMAIN p :
                i < j => CoreIndex(p[i]) <= CoreIndex(p[j])}}

\* The files below the directory dir: the modelled tree is the one below the
\* project root, any other directory holds no file.
TreeAt(t, dir) == IF dir = ProjectRoot THEN t ELSE [r \in DOMAIN t |-> NoFile]

\* fs::read of an absolute path: the content, or NoFile (an io::Error).
ReadFile(t, path) ==
    IF starts_with(path, ProjectRoot)
       /\ strip_prefix(path, ProjectRoot) \in RelPaths
    THEN t[strip_prefix(path, ProjectRoot)]
    ELSE NoFile

\* calculate_file_checksum on a readable file.
calculate_file_checksum(t, path) == Fingerprint(ReadFile(t, path))

\* Variant: every candidate counts as changed.
IsChangedAlways(stored, current) == TRUE

\* Variant: a path without a stored checksum does not count as changed.
IsChangedKnown(stored, current) == stored # <<NoEntry>> /\ stored # current

\* Variant: only a path without a stored checksum counts as changed.
IsChangedMissing(stored, current) == stored = <<NoEntry>>

\* get_changed_files: stored_checksum != Some(&current_checksum)
IsChanged(stored, current) == stored # current

\* Variant: the archive receives the current file instead of the mirrored one.
ArchiveSourceCurrent(mir, t, path, rel) == ReadFile(t, path)

\* archive_changed_files copies the old version from the active backup.
ArchiveSource(mir, t, path, rel) == mir[rel]

\* Variant: a file the mirror already holds is not copied again.
MirrorSourceKept(mir, t, path, rel) ==
    IF mir[rel] # NoFile THEN mir[rel] ELSE ReadFile(t, path)

\* update_active_backup copies the file itself.
MirrorSource(mir, t, path, rel) == ReadFile(t, path)

\* Variant: the active backup is updated before the archive is rotated.
StepAfterMirrorFirst(step, has_changes) ==
    CASE step = "detect" -> "mirror"
      [] step = "mirror" -> "archive"
      [] step = "archive" -> "checksums"
      [] step = "checksums" -> "tracking"
      [] step = "tracking" -> "finish"

\* Variant: the checksums are written before the archive and mirror steps.
StepAfterChecksumsFirst(step, has_changes) ==
    CASE step = "detect" -> "checksums"
      [] step = "checksums" -> "archive"
      [] step = "archive" -> "mirror"
      [] step = "mirror" -> "tracking"
      [] step = "tracking" -> "finish"

\* Variant: the tracking record is written before the archive is rotated.
StepAfterTrackingFirst(step, has_changes) ==
    CASE step = "detect" -> "tracking"
      [] step = "tracking" -> "archive"
      [] step = "archive" -> "mirror"
      [] step = "mirror" -> "checksums"
      [] step = "checksums" -> "finish"

\* Variant: the archive is rotated in every run.
StepAfterAlwaysArchive(step, has_changes) ==
    CASE step = "detect" -> "archive"
      [] step = "archive" -> "mirror"
      [] step = "mirror" -> "checksums"
      [] step = "checksums" -> "tracking"
      [] step = "tracking" -> "finish"

\* The order of the steps of create_backup.
StepAfter(step, has_changes) ==
    CASE step = "detect" -> IF has_changes THEN "archive" ELSE "mirror"
      [] step = "archive" -> "mirror"
      [] step = "mirror" -> "checksums"
      [] step = "checksums" -> "tracking"
      [] step = "tracking" -> "finish"

\* ------------------------------------------- rust_fractal: greedy_knapsack

\* Bounds of the model: the width of usize in bits, and the longest argument
\* vector of a greedy_knapsack call.
UsizeBits == 3

MaxItems == 2

UsizeMax == 2 ^ UsizeBits - 1

Usize == 0..UsizeMax

\* f64 gains: a few finite values and NaN.
NaN == <<"NaN">>

GainValues == {<<"f64", 0>>, <<"f64", 1>>, <<"f64", 2>>, NaN}

\* How the extension was compiled: with overflow checks (debug) or without.
Builds == {"debug", "release"}

SeqsUpTo(S, n) == UNION {[1..k -> S] : k \in 0..n}

\* gain / cost as f64 is NaN exactly when the gain is (cost > 0 here).
RatioIsNaN(gains, i) == gains[i] = NaN

\* b.1.partial_cmp(&a.1) is Less: item a has the strictly greater ratio.
\* gains[a] / costs[a] > gains[b] / costs[b], both costs positive.
RatioGreater(gains, costs, a, b) ==
    gains[a][2] * costs[b] > gains[b][2] * costs[a]

\* .filter_map(..): the indices whose cost is positive, in index order.
RECURSIVE FilterItems(_, _)
FilterItems(costs, n) ==
    IF n = 0 THEN <<>>
    ELSE IF costs[n] > 0 THEN Append(FilterItems(costs, n - 1), n)
         ELSE FilterItems(costs, n - 1)

\* One item put into a sequence sorted by ratio descending, behind every item
\* whose ratio is not smaller (the sort is stable).
RECURSIVE InsertByRatio(_, _, _, _)
InsertByRatio(gains, costs, sorted, x) ==
    IF sorted = <<>> THEN <<x>>
    ELSE IF RatioGreater(gains, costs, x, sorted[1])
         THEN <<x>> \o sorted
         ELSE <<sorted[1]>> \o InsertByRatio(gains, costs, Tail(sorted), x)

\* items.sort_by(|a, b| b.1.partial_cmp(&a.1).unwrap()) on finite ratios.
RECURSIVE SortByRatio(_, _, _)
SortByRatio(gains, costs, items) ==
    IF items = <<>> THEN <<>>
    ELSE InsertByRatio(gains, costs,
                       SortByRatio(gains, costs,
                                   SubSeq(items, 1, Len(items) - 1)),
                       items[Len(items)])

\* The sort compares every item of a vector of two or more, and
\* partial_cmp(..).unwrap() panics on a NaN.
SortPanics(gains, items) ==
    /\ Len(items) >= 2
    /\ \E i \in 1..Len(items) : RatioIsNaN(gains, items[i])

\* used + costs[idx] with overflow checks: it panics when the sum does not
\* fit.  Without them the sum wraps.
AddOverflows(a, b) == a + b > UsizeMax

WrappingAdd(a, b) == (a + b) % (2 ^ UsizeBits)

\* The greedy selection loop over the sorted items.  Indices are reported
\* from 0, as the code does.
RECURSIVE Select(_, _, _, _, _, _)
Select(items, costs, budget, build, used, selected) ==
    IF items = <<>> THEN [panicked |-> FALSE, selected |-> selected]
    ELSE IF AddOverflows(used, costs[items[1]]) /\ build = "debug"
         THEN [panicked |-> TRUE, selected |-> <<>>]
         ELSE IF WrappingAdd(used, costs[items[1]]) <= budget
              THEN Select(Tail(items), costs, budget, build,
                          WrappingAdd(used, costs[items[1]]),
                          Append(selected, items[1] - 1))
              ELSE Select(Tail(items), costs, budget, build, used, selected)

greedy_knapsack(gains, costs, budget, build) ==
    IF Len(gains) # Len(costs) THEN [panicked |-> FALSE, selected |-> <<>>]
    ELSE IF SortPanics(gains, FilterItems(costs, Len(costs)))
         THEN [panicked |-> TRUE, selected |-> <<>>]
         ELSE Select(SortByRatio(gains, costs,
                                 FilterItems(costs, Len(costs))),
                     costs, budget, build, 0, <<>>)

\* No greedy_knapsack call is made.
NoCall ==
    [state |-> "none", gains |-> <<>>, costs |-> <<>>, budget |-> 0,
     build |-> "release", selected |-> <<>>]

\* ------------------------------------------------------------------ state

VARIABLES
    tree,       \* project tree: relative path -> content or NoFile
    mirror,     \* active_backup/: relative path -> content or NoFile
    archive,    \* archive_backup/: relative path -> content or NoFile
    csFile,     \* file_checksums.json: the map its text is (when the text
                \* is not JSON: the map whose text is as long as the file)
    trackFile,  \* backup_tracking.json
    garbled,    \* per JSON file: how its text fails to parse ("no": it parses)
    clock,      \* number of create_backup calls started
    cwd,        \* std::env::current_dir()
    backup_dir, \* the backup root the engines were constructed on
    pc,         \* per engine: the step create_backup is at
    files,      \* per engine: files_to_backup
    changed,    \* per engine: changed_files
    store,      \* per engine: self.file_checksums
    ts,         \* per engine: self.last_backup_timestamp
    result,     \* per engine: what create_backup has just handed its caller
    pre,        \* per engine: the run's switches, the state it started in
                \* and the checksums its change detection computed
    okTree,     \* content of each path at the last successful run over it
    mirrorOk,   \* the mirror entry was last written by a run that succeeded
    applied,    \* mapping of the last run that finished its mirror step
    last,       \* the last finished call: outcome and switches
    dirty,      \* a source file was written or deleted since that call
    local,      \* per engine: the locals of the running function: the loop
                \* position, its current_dir, the file an fs::copy or
                \* fs::write has open; in `new` the map it has read
    knap,       \* a greedy_knapsack call: its arguments and its outcome
    edits       \* writes and deletions counted against MaxEdits

vars == <<tree, mirror, archive, csFile, trackFile, garbled, clock, cwd,
          backup_dir, pc, files, changed, store, ts, result, pre, okTree,
          mirrorOk, applied, last, dirty, local, knap, edits>>

hist == <<okTree, mirrorOk, applied>>

disk == <<tree, mirror, archive, csFile, trackFile, garbled>>

NoSwitches == <<FALSE, FALSE, FALSE>>

\* The (include_data, include_logs, include_config) a caller passes.
SwitchInputs == {<<TRUE, FALSE, FALSE>>, <<FALSE, TRUE, TRUE>>}

NoResult ==
    [kind |-> "none", success |-> FALSE, files_processed |-> 0,
     files_changed |-> 0, backup_path |-> <<>>, error_message |-> "None"]

NoPre ==
    [sw |-> NoSwitches, mirror |-> EmptyDir, archive |-> EmptyDir,
     store |-> EmptyStore,
     csFile |-> [exists |-> FALSE, content |-> EmptyStore], ok |-> EmptyDir,
     mirrorOk |-> [r \in RelPaths |-> FALSE], repeat |-> FALSE,
     seen |-> EmptyStore]

NoLocal ==
    [i |-> 0, dir |-> ProjectRoot, map |-> EmptyStore, from |-> "none",
     at |-> "start", open |-> "no", src |-> "live"]

\* The state after RustBackupCore::new on an empty backup root: engine 1 is
\* constructed, engine 2 is not.
Init ==
    /\ tree \in [RelPaths -> FileStates]
    /\ mirror = EmptyDir
    /\ archive = EmptyDir
    /\ csFile = [exists |-> FALSE, content |-> EmptyStore]
    /\ trackFile = [exists |-> FALSE, ts |-> 0, count |-> 0]
    /\ garbled = NotGarbled
    /\ clock = 0
    /\ cwd = ProjectRoot
    /\ backup_dir = BackupCore
    /\ pc = [e \in Engines |-> IF e = 1 THEN "idle" ELSE "none"]
    /\ files = [e \in Engines |-> <<>>]
    /\ changed = [e \in Engines |-> <<>>]
    /\ store = [e \in Engines |-> EmptyStore]
    /\ ts = [e \in Engines |-> 0]
    /\ result = [e \in Engines |-> NoResult]
    /\ pre = [e \in Engines |-> NoPre]
    /\ okTree = EmptyDir
    /\ mirrorOk = [r \in RelPaths |-> FALSE]
    /\ applied = EmptyStore
    /\ last = [state |-> "never", sw |-> NoSwitches, by |-> 0]
    /\ dirty = TRUE
    /\ local = [e \in Engines |-> NoLocal]
    /\ knap = NoCall
    /\ edits = 0

\* No create_backup call is in progress.
Idle == \A e \in Engines : pc[e] \in {"none", "idle", "new"}

\* ---------------------------------------------------------------- actions

\* PyRustBackupCore::new raises
\* PyRuntimeError("Failed to initialize backup core: ...").
InitError ==
    [kind |-> "PyErr", success |-> FALSE, files_processed |-> 0,
     files_changed |-> 0, backup_path |-> <<>>,
     error_message |-> "Failed to initialize backup core"]

\* fs::read_to_string(..)? fails on a file that is not UTF-8;
\* serde_json::from_str::<Value>(..)? fails on text that is not JSON.
NewFails(g) ==
    \/ g[CsName] = "bytes"
    \/ g[TrackName] \in {"text", "bytes"}

\* serde_json::from_str(&content).unwrap_or_default() of file_checksums.json
LoadChecksums(f, g) ==
    IF f.exists /\ g[CsName] = "no" THEN f.content ELSE EmptyStore

\* data.get("last_backup_timestamp").and_then(|v| v.as_u64()).unwrap_or(0)
LoadTimestamp(f, g) ==
    IF f.exists /\ g[TrackName] = "no" THEN f.ts ELSE 0

\* RustBackupCore::new returns the error of a `?`: nothing is constructed,
\* an engine the caller already holds stays as it is.
NewError(e, from) ==
    /\ result' = [result EXCEPT ![e] = InitError]
    /\ pc' = [pc EXCEPT ![e] = from]
    /\ local' = [local EXCEPT ![e] = NoLocal]
    /\ UNCHANGED <<store, ts>>

\* RustBackupCore::new, first half: the two directories are created and
\* file_checksums.json is read.  Nothing locks the backup root, so other
\* processes act between this read and the next.
NewChecksums(e) ==
    /\ pc[e] \in {"none", "idle"}
    /\ IF garbled[CsName] = "bytes"
       THEN NewError(e, pc[e])
       ELSE /\ pc' = [pc EXCEPT ![e] = "new"]
            /\ local' = [local EXCEPT ![e] =
                            [NoLocal EXCEPT
                                !.map = LoadChecksums(csFile, garbled),
                                !.from = pc[e]]]
            /\ UNCHANGED <<store, ts, result>>
    /\ UNCHANGED <<disk, clock, cwd, backup_dir, knap, edits, files, changed, pre, hist,
                   last, dirty>>

\* RustBackupCore::new, second half: backup_tracking.json is read and the
\* engine is constructed from what the two reads gave.
NewTracking(e) ==
    /\ pc[e] = "new"
    /\ IF garbled[TrackName] \in {"text", "bytes"}
       THEN NewError(e, local[e].from)
       ELSE /\ pc' = [pc EXCEPT ![e] = "idle"]
            /\ store' = [store EXCEPT ![e] = local[e].map]
            /\ ts' = [ts EXCEPT ![e] = LoadTimestamp(trackFile, garbled)]
            /\ local' = [local EXCEPT ![e] = NoLocal]
            /\ result' = result
    /\ UNCHANGED <<disk, clock, cwd, backup_dir, knap, edits, files, changed, pre, hist,
                   last, dirty>>

\* An I/O operation of RustBackupCore::new fails: create_dir_all (a regular
\* file lies where active_backup/ or archive_backup/ should be, or the
\* root cannot be written) or one of the two fs::read_to_string.
NewFail(e) ==
    /\ pc[e] \in {"none", "idle", "new"}
    /\ NewError(e, IF pc[e] = "new" THEN local[e].from ELSE pc[e])
    /\ UNCHANGED <<disk, clock, cwd, backup_dir, knap, edits, files, changed, pre, hist,
                   last, dirty>>

New(e) == NewChecksums(e) \/ NewTracking(e) \/ NewFail(e)

\* Variant: a call waits until no other engine is inside create_backup.
CanStartExclusive(e) == \A o \in Engines : pc[o] \in {"none", "idle", "new"}

\* create_backup(&mut self, ..) needs nothing but the engine itself: the
\* engine exists and is not inside another call.
CanStart(e) == pc[e] = "idle"

\* The walks get_files_to_backup makes under the given switches: config and
\* log are looked at only when their switch is set.
Walks(sw) ==
    SelectSeq(WalkUnits, LAMBDA u : /\ u = "log" => sw[2]
                                    /\ u = "config" => sw[3])

\* Variant: only the changed files are copied into the active backup.
MirrorInputChanged(files_to_backup, changed_files) == changed_files

\* create_backup hands update_active_backup every file to back up.
MirrorInput(files_to_backup, changed_files) == files_to_backup

\* The function create_backup is in returns Ok: create_backup goes on with
\* its next statement, the locals of the function are dropped.
Leave(e, ch) ==
    /\ pc' = [pc EXCEPT ![e] = StepAfter(pc[e], ch # <<>>)]
    /\ local' = [local EXCEPT ![e] = NoLocal]

\* One iteration of a loop over n files is done: the loop goes to its next
\* iteration, or the function returns Ok.
Advance(e, n, ch) ==
    IF local[e].i + 1 < n
    THEN /\ pc' = pc
         /\ local' = [local EXCEPT ![e].i = @ + 1, ![e].open = "no",
                                   ![e].src = "live"]
    ELSE Leave(e, ch)

\* The checksum map a run is about to produce: the fingerprint of every
\* candidate laid over the entries the engine holds.
ProducedMap(m, t, fs) ==
    [k \in AbsPaths |->
        IF \E i \in 1..Len(fs) : fs[i] = k
        THEN calculate_file_checksum(t, k) ELSE m[k]]

\* create_backup is called: get_files_to_backup has read current_dir.
Begin(e, include_data, include_logs, include_config) ==
    /\ CanStart(e)
    /\ clock < MaxRuns
    /\ clock' = clock + 1
    /\ files' = [files EXCEPT ![e] = <<>>]
    /\ changed' = [changed EXCEPT ![e] = <<>>]
    /\ pc' = [pc EXCEPT ![e] = "enumerate"]
    /\ local' = [local EXCEPT ![e] = [NoLocal EXCEPT !.dir = cwd]]
    /\ result' = [result EXCEPT ![e] = NoResult]
    /\ pre' = [pre EXCEPT ![e] =
                  [sw |-> <<include_data, include_logs, include_config>>,
                   mirror |-> mirror, archive |-> archive, store |-> store[e],
                   csFile |-> csFile, ok |-> okTree,
                   mirrorOk |-> mirrorOk,
                   repeat |-> /\ last.state = "ok"
                              /\ last.sw = <<include_data, include_logs,
                                             include_config>>
                              /\ ~dirty,
                   seen |-> EmptyStore]]
    /\ UNCHANGED <<disk, cwd, backup_dir, knap, edits, store, ts, hist, last, dirty>>

\* get_files_to_backup makes its next walk and pushes the files it meets;
\* after the last walk it returns and get_changed_files is entered, whose
\* loop over no file returns at once.
Enumerate(e) ==
    /\ pc[e] = "enumerate"
    /\ LET sw == pre[e].sw
           u == Walks(sw)[local[e].i + 1]
       IN  \E q \in WalkUnit(TreeAt(tree, local[e].dir), local[e].dir, u,
                             sw[1], sw[2], sw[3]) :
              /\ files' = [files EXCEPT ![e] = files[e] \o q]
              /\ IF local[e].i + 1 < Len(Walks(sw))
                 THEN /\ pc' = pc
                      /\ local' = [local EXCEPT ![e].i = @ + 1]
                 ELSE /\ pc' = [pc EXCEPT ![e] =
                                   IF files[e] \o q = <<>>
                                   THEN StepAfter("detect", FALSE)
                                   ELSE "detect"]
                      /\ local' = [local EXCEPT ![e] = NoLocal]
    /\ UNCHANGED <<disk, clock, cwd, backup_dir, knap, edits, changed, store, ts, result,
                   pre, hist, last, dirty>>

\* A `?` of create_backup returns the error, dropping the locals (loc is
\* what the locals of the engines are but for that):
\* PyRustBackupCore::create_backup turns it into a
\* PyRuntimeError("Backup failed: ...") raised to the caller.
RaiseFrom(e, loc) ==
    /\ pc' = [pc EXCEPT ![e] = "idle"]
    /\ local' = [loc EXCEPT ![e] = NoLocal]
    /\ result' = [result EXCEPT ![e] =
                     [kind |-> "PyErr", success |-> FALSE,
                      files_processed |-> 0, files_changed |-> 0,
                      backup_path |-> <<>>,
                      error_message |-> "Backup failed"]]
    /\ files' = [files EXCEPT ![e] = <<>>]
    /\ changed' = [changed EXCEPT ![e] = <<>>]
    /\ pre' = [pre EXCEPT ![e] = NoPre]
    /\ last' = [state |-> "failed", sw |-> NoSwitches, by |-> e]
    /\ dirty' = TRUE

Raise(e) == RaiseFrom(e, local)

\* Variant: only the first changed candidate is pushed.
PushChangedFirst(changed_files, file_path) ==
    IF changed_files = <<>> THEN <<file_path>> ELSE changed_files

\* changed_files.push(file_path.clone())
PushChanged(changed_files, file_path) == Append(changed_files, file_path)

\* Variant: a candidate that is gone reads as an empty file.
UnreadableNever(t, path) == FALSE

\* fs::read or fs::copy of the path returns an error: the file is gone.
Unreadable(t, path) == ReadFile(t, path) = NoFile

\* Variant: the checksums are read again from file_checksums.json.
DetectAgainstFile(file_checksums, saved) ==
    IF saved.exists THEN saved.content ELSE file_checksums

\* get_changed_files looks the stored checksum up in self.file_checksums.
DetectAgainst(file_checksums, saved) == file_checksums

\* One iteration of get_changed_files: the candidate is read and its
\* checksum compared with the stored one; a candidate that cannot be read is
\* an error.  After the last candidate the function returns.
Detect(e) ==
    /\ pc[e] = "detect"
    /\ LET f == files[e][local[e].i + 1]
           cur == calculate_file_checksum(tree, f)
           ch == IF IsChanged(DetectAgainst(store[e], csFile)[f], cur)
                 THEN PushChanged(changed[e], f)
                 ELSE changed[e]
       IN  IF Unreadable(tree, f)
           THEN Raise(e)
           ELSE /\ changed' = [changed EXCEPT ![e] = ch]
                /\ pre' = [pre EXCEPT ![e].seen[f] = cur]
                /\ Advance(e, Len(files[e]), ch)
                /\ UNCHANGED <<files, result, last, dirty>>
    /\ UNCHANGED <<disk, clock, cwd, backup_dir, knap, edits, store, ts, hist>>

\* Variant: the old archive is not removed.
ClearedArchiveKept(arch) == arch

\* remove_dir_all followed by create_dir_all: nothing of the old archive is
\* left.
ClearedArchive(arch) == EmptyDir

\* The changed file the loop of archive_changed_files is at.
ArchiveFile(e) == changed[e][local[e].i + 1]

\* The locals of the engines once the archived files of the set gone are
\* unlinked: an engine whose fs::copy holds one of them open goes on writing
\* to a file no directory holds any more.
Unlinked(gone) ==
    [o \in Engines |->
        IF /\ pc[o] = "archive"
           /\ local[o].open = "yes"
           /\ strip_prefix(ArchiveFile(o), local[o].dir) \in gone
        THEN [local[o] EXCEPT !.open = "lost"]
        ELSE local[o]]

\* archive_changed_files clears the archive: remove_dir_all and
\* create_dir_all.
ArchiveClear(e) ==
    /\ pc[e] = "archive"
    /\ local[e].at = "start"
    /\ archive' = ClearedArchive(archive)
    /\ local' = [Unlinked({r \in RelPaths : ClearedArchive(archive)[r] = NoFile})
                    EXCEPT ![e].at = "dir"]
    /\ UNCHANGED <<tree, mirror, csFile, trackFile, garbled, clock, cwd,
                   backup_dir, knap, edits, pc, files, changed, store, ts, result, pre,
                   hist, last, dirty>>

\* remove_dir_all fails part-way (an entry cannot be unlinked, or another
\* process has put a file into a directory it is about to remove), or
\* create_dir_all fails after it: some of the archived files are left.
ArchiveClearFail(e) ==
    /\ pc[e] = "archive"
    /\ local[e].at = "start"
    /\ \E keep \in SUBSET {r \in RelPaths : archive[r] # NoFile} :
          /\ archive' = [r \in RelPaths |->
                            IF r \in keep THEN archive[r] ELSE NoFile]
          /\ RaiseFrom(e, Unlinked(RelPaths \ keep))
    /\ UNCHANGED <<tree, mirror, csFile, trackFile, garbled, clock, cwd,
                   backup_dir, knap, edits, store, ts, hist>>

\* archive_changed_files reads current_dir once the archive is cleared; a
\* loop over no file returns at once.
ArchiveDir(e) ==
    /\ pc[e] = "archive"
    /\ local[e].at = "dir"
    /\ IF changed[e] = <<>>
       THEN Leave(e, changed[e])
       ELSE /\ pc' = pc
            /\ local' = [local EXCEPT ![e].at = "loop", ![e].dir = cwd]
    /\ UNCHANGED <<disk, clock, cwd, backup_dir, knap, edits, files, changed, store, ts,
                   result, pre, hist, last, dirty>>

\* That iteration copies a file: the path lies below current_dir and the
\* active backup holds a file for it.
ArchiveCopies(e) ==
    LET f == ArchiveFile(e)
    IN  /\ starts_with(f, local[e].dir)
        /\ strip_prefix(f, local[e].dir) \in RelPaths
        /\ mirror[strip_prefix(f, local[e].dir)] # NoFile

\* One iteration of the loop of archive_changed_files, up to the point
\* where fs::copy has opened its destination: a path outside current_dir or
\* without a file in the active backup is passed over, for any other the
\* archived file is created, or truncated, and empty.
ArchiveOpen(e) ==
    /\ pc[e] = "archive"
    /\ local[e].at = "loop"
    /\ local[e].open = "no"
    /\ IF ArchiveCopies(e)
       THEN /\ archive' = [archive EXCEPT
                ![strip_prefix(ArchiveFile(e), local[e].dir)] = Torn]
            /\ pc' = pc
            /\ local' = [local EXCEPT ![e].open = "yes"]
       ELSE /\ archive' = archive
            /\ Advance(e, Len(changed[e]), changed[e])
    /\ UNCHANGED <<tree, mirror, csFile, trackFile, garbled, clock, cwd,
                   backup_dir, knap, edits, files, changed, store, ts, result, pre, hist,
                   last, dirty>>

\* fs::copy writes the bytes the active backup holds by now into the file it
\* has opened, over what another fs::copy may have written into it since;
\* they are lost when the file has been unlinked since.
ArchiveCopy(e) ==
    /\ pc[e] = "archive"
    /\ local[e].open # "no"
    /\ LET f == ArchiveFile(e)
           rel == strip_prefix(f, local[e].dir)
       IN  archive' = IF local[e].open = "yes"
                      THEN [archive EXCEPT
                               ![rel] = Overwrite(archive[rel],
                                   ArchiveSource(mirror, tree, f, rel))]
                      ELSE archive
    /\ Advance(e, Len(changed[e]), changed[e])
    /\ UNCHANGED <<tree, mirror, csFile, trackFile, garbled, clock, cwd,
                   backup_dir, knap, edits, files, changed, store, ts, result, pre, hist,
                   last, dirty>>

\* The file the loop of update_active_backup is at.
MirrorFile(e) == MirrorInput(files[e], changed[e])[local[e].i + 1]

\* That iteration copies the file: the path lies below current_dir.
MirrorCopies(e) ==
    /\ starts_with(MirrorFile(e), local[e].dir)
    /\ strip_prefix(MirrorFile(e), local[e].dir) \in RelPaths

\* The mapping of the run, recorded when update_active_backup returns.
AppliedWhen(e, done) ==
    applied' = IF done THEN ProducedMap(store[e], tree, files[e]) ELSE applied

\* update_active_backup reads current_dir as it is entered; a loop over no
\* file returns at once.
MirrorDir(e) ==
    /\ pc[e] = "mirror"
    /\ local[e].at = "start"
    /\ IF MirrorInput(files[e], changed[e]) = <<>>
       THEN /\ Leave(e, changed[e])
            /\ AppliedWhen(e, TRUE)
       ELSE /\ pc' = pc
            /\ local' = [local EXCEPT ![e].at = "loop", ![e].dir = cwd]
            /\ applied' = applied
    /\ UNCHANGED <<disk, clock, cwd, backup_dir, knap, edits, files, changed, store, ts,
                   result, pre, okTree, mirrorOk, last, dirty>>

\* One iteration of the loop of update_active_backup, up to the point where
\* fs::copy has opened its two files: a path outside current_dir is passed
\* over, a source file that is gone is an error, for any other the mirrored
\* file is created, or truncated, and empty.
MirrorOpen(e) ==
    /\ pc[e] = "mirror"
    /\ local[e].at = "loop"
    /\ local[e].open = "no"
    /\ LET f == MirrorFile(e)
           rel == strip_prefix(f, local[e].dir)
           n == Len(MirrorInput(files[e], changed[e]))
       IN  IF ~MirrorCopies(e)
           THEN /\ AppliedWhen(e, local[e].i + 1 = n)
                /\ Advance(e, n, changed[e])
                /\ UNCHANGED <<mirror, mirrorOk, files, changed, result, pre,
                               last, dirty>>
           ELSE IF Unreadable(tree, f)
           THEN /\ Raise(e)
                /\ UNCHANGED <<mirror, mirrorOk, applied>>
           ELSE /\ mirror' = [mirror EXCEPT ![rel] = Torn]
                /\ mirrorOk' = [mirrorOk EXCEPT ![rel] = FALSE]
                /\ pc' = pc
                /\ local' = [local EXCEPT ![e].open = "yes"]
                /\ UNCHANGED <<applied, files, changed, result, pre, last,
                               dirty>>
    /\ UNCHANGED <<tree, archive, csFile, trackFile, garbled, clock, cwd,
                   backup_dir, knap, edits, store, ts, okTree>>

\* Variant: the copy also drops the mirror entries whose source is gone.
MirrorWriteSynced(mir, t, path, rel) ==
    [r \in RelPaths |->
        IF r = rel THEN Overwrite(mir[rel], MirrorSource(mir, t, path, rel))
        ELSE IF t[r] = NoFile THEN NoFile ELSE mir[r]]

\* fs::copy(file_path, &backup_file_path) writes one file of the mirror.
MirrorWrite(mir, t, path, rel) ==
    [mir EXCEPT ![rel] = Overwrite(mir[rel], MirrorSource(mir, t, path, rel))]

\* The source file as the fs::copy that has opened it reads it: what the
\* file holds by now, or what it held when it was deleted.
OpenedTree(e, rel) ==
    IF local[e].src = "live" THEN tree
    ELSE [tree EXCEPT ![rel] = local[e].src]

\* fs::copy writes the bytes of the source file into the mirrored file it
\* has opened.  After the last file update_active_backup returns.
MirrorCopy(e) ==
    /\ pc[e] = "mirror"
    /\ local[e].open = "yes"
    /\ LET f == MirrorFile(e)
           rel == strip_prefix(f, local[e].dir)
           n == Len(MirrorInput(files[e], changed[e]))
       IN  /\ mirror' = MirrorWrite(mirror, OpenedTree(e, rel), f, rel)
           /\ AppliedWhen(e, local[e].i + 1 = n)
           /\ Advance(e, n, changed[e])
    /\ UNCHANGED <<tree, archive, csFile, trackFile, garbled, clock, cwd,
                   backup_dir, knap, edits, files, changed, store, ts, result, pre,
                   okTree, mirrorOk, last, dirty>>

\* Variant: the map is rebuilt, the entries of other paths are dropped.
InsertChecksumAlone(m, path, checksum) ==
    [EmptyStore EXCEPT ![path] = checksum]

\* self.file_checksums.insert(path_str, checksum)
InsertChecksum(m, path, checksum) == [m EXCEPT ![path] = checksum]

\* One iteration of the loop of update_file_checksums: the candidate is read
\* again and its checksum put into the map of the engine.
ChecksumInsert(e) ==
    /\ pc[e] = "checksums"
    /\ local[e].i < Len(files[e])
    /\ LET f == files[e][local[e].i + 1]
       IN  IF Unreadable(tree, f)
           THEN /\ Raise(e)
                /\ store' = store
           ELSE /\ store' = [store EXCEPT ![e] =
                                InsertChecksum(store[e], f,
                                    calculate_file_checksum(tree, f))]
                /\ pc' = pc
                /\ local' = [local EXCEPT ![e].i = @ + 1]
                /\ UNCHANGED <<files, changed, result, pre, last, dirty>>
    /\ UNCHANGED <<disk, clock, cwd, backup_dir, knap, edits, ts, hist>>

\* fs::write has opened file_checksums.json: the file is created, or
\* truncated, and empty, which is not JSON.
ChecksumsOpen(e) ==
    /\ pc[e] = "checksums"
    /\ local[e].i = Len(files[e])
    /\ local[e].open = "no"
    /\ csFile' = [exists |-> TRUE, content |-> EmptyStore]
    /\ garbled' = [garbled EXCEPT ![CsName] = "text"]
    /\ local' = [local EXCEPT ![e].open = "yes"]
    /\ UNCHANGED <<tree, mirror, archive, trackFile, clock, cwd, backup_dir, knap, edits,
                   pc, files, changed, store, ts, result, pre, hist, last, dirty>>

\* The number of characters file_checksums.json holds: none between the
\* open and the write of an fs::write, otherwise as many as the text of the
\* longest map written into it since it was last truncated.
ChecksumsLen(f, g) ==
    IF ~f.exists \/ (g[CsName] = "text" /\ f.content = EmptyStore) THEN 0
    ELSE JsonLen(f.content)

\* The text of the map m is written at offset 0 of file_checksums.json: it
\* is the whole of the file unless another fs::write has put a longer text
\* there since this one opened the file; the file is then the text of m
\* followed by the rest of the longer one, which is not JSON.
ChecksumsOver(f, g, m) == JsonLen(m) < ChecksumsLen(f, g)

\* fs::write writes the map into file_checksums.json and
\* update_file_checksums returns.
ChecksumsWrite(e) ==
    /\ pc[e] = "checksums"
    /\ local[e].open = "yes"
    /\ csFile' = [exists |-> TRUE,
                  content |-> IF ChecksumsOver(csFile, garbled, store[e])
                              THEN csFile.content ELSE store[e]]
    /\ garbled' = [garbled EXCEPT
                      ![CsName] = IF ChecksumsOver(csFile, garbled, store[e])
                                  THEN "text" ELSE "no"]
    /\ Leave(e, changed[e])
    /\ UNCHANGED <<tree, mirror, archive, trackFile, clock, cwd, backup_dir, knap, edits,
                   files, changed, store, ts, result, pre, hist, last, dirty>>

\* update_backup_timestamp assigns self.last_backup_timestamp, and its
\* fs::write has opened backup_tracking.json: the file is created, or
\* truncated, and empty.  SystemTime::now() in whole seconds is any of
\* Seconds: two calls may read the same second, or a later call an earlier
\* one.
TrackingOpen(e) ==
    /\ pc[e] = "tracking"
    /\ local[e].open = "no"
    /\ \E now \in Seconds : ts' = [ts EXCEPT ![e] = now]
    /\ trackFile' = [exists |-> TRUE, ts |-> 0, count |-> 0]
    /\ garbled' = [garbled EXCEPT ![TrackName] = "text"]
    /\ local' = [local EXCEPT ![e].open = "yes"]
    /\ UNCHANGED <<tree, mirror, archive, csFile, clock, cwd, backup_dir, knap, edits,
                   pc, files, changed, store, result, pre, hist, last, dirty>>

\* fs::write writes the timestamp and the number of checksums into
\* backup_tracking.json and update_backup_timestamp returns.  The texts of
\* two such writes are of one length (the two numbers have one digit each),
\* so the write replaces whatever another has put into the file.
TrackingWrite(e) ==
    /\ pc[e] = "tracking"
    /\ local[e].open = "yes"
    /\ trackFile' = [exists |-> TRUE, ts |-> ts[e],
                     count |-> StoreLen(store[e])]
    /\ garbled' = [garbled EXCEPT ![TrackName] = "no"]
    /\ Leave(e, changed[e])
    /\ UNCHANGED <<tree, mirror, archive, csFile, clock, cwd, backup_dir, knap, edits,
                   files, changed, store, ts, result, pre, hist, last, dirty>>

\* update_backup_timestamp has assigned self.last_backup_timestamp and its
\* fs::write fails to open backup_tracking.json: the file is as it was.
TrackingFail(e) ==
    /\ pc[e] = "tracking"
    /\ local[e].open = "no"
    /\ \E now \in Seconds : ts' = [ts EXCEPT ![e] = now]
    /\ Raise(e)
    /\ UNCHANGED <<disk, clock, cwd, backup_dir, knap, edits, store, hist>>

\* backup_path.join("active_backup")
active_backup_dir(root) == Join(root, <<"active_backup">>)

\* Variant: the two counters are exchanged.
BackupResultSwapped(root, files_to_backup, changed_files) ==
    [kind |-> "BackupResult", success |-> TRUE,
     files_processed |-> Len(changed_files),
     files_changed |-> Len(files_to_backup),
     backup_path |-> active_backup_dir(root),
     error_message |-> "None"]

\* The BackupResult of a successful call (time_taken_ms left out).
BackupResult(root, files_to_backup, changed_files) ==
    [kind |-> "BackupResult", success |-> TRUE,
     files_processed |-> Len(files_to_backup),
     files_changed |-> Len(changed_files),
     backup_path |-> active_backup_dir(root),
     error_message |-> "None"]

\* create_backup returns Ok(BackupResult { success: true, .. }).
Finish(e) ==
    /\ pc[e] = "finish"
    /\ pc' = [pc EXCEPT ![e] = "returned"]
    /\ local' = [local EXCEPT ![e] = NoLocal]
    /\ result' = [result EXCEPT ![e] =
                     BackupResult(backup_dir, files[e], changed[e])]
    /\ okTree' = [r \in RelPaths |->
                     IF \E i \in 1..Len(files[e]) :
                            files[e][i] = Join(ProjectRoot, r)
                     THEN tree[r] ELSE okTree[r]]
    /\ mirrorOk' = [r \in RelPaths |->
                       \/ \E i \in 1..Len(files[e]) :
                              files[e][i] = Join(ProjectRoot, r)
                       \/ mirrorOk[r]]
    /\ applied' = applied
    /\ last' = [state |-> "ok", sw |-> pre[e].sw, by |-> e]
    /\ dirty' = FALSE
    /\ UNCHANGED <<disk, clock, cwd, backup_dir, knap, edits, files, changed, store, ts,
                   pre>>

\* The operation the call is at fails and has no effect of its own
\* (current_dir, a directory entry, fs::read, remove_dir_all,
\* create_dir_all, the open or the write of fs::copy or fs::write,
\* SystemTime): the error is returned through `?`.  A file that the
\* operation had opened is left as it was opened, empty.
Fail(e) ==
    /\ pc[e] \notin {"none", "idle", "new", "returned"}
    /\ Raise(e)
    /\ UNCHANGED <<disk, clock, cwd, backup_dir, knap, edits, store, ts, hist>>

\* The caller has taken the BackupResult of a successful call.
Return(e) ==
    /\ pc[e] = "returned"
    /\ pc' = [pc EXCEPT ![e] = "idle"]
    /\ result' = [result EXCEPT ![e] = NoResult]
    /\ files' = [files EXCEPT ![e] = <<>>]
    /\ changed' = [changed EXCEPT ![e] = <<>>]
    /\ pre' = [pre EXCEPT ![e] = NoPre]
    /\ UNCHANGED <<disk, clock, cwd, backup_dir, knap, edits, store, ts, hist, last, dirty,
                   local>>

\* Another process's operation on a source file counts n (0 or 1) against
\* the bound on the operations other processes make while calls run.
Counted(n) ==
    /\ edits + n <= MaxEdits
    /\ edits' = edits + n

\* Another process writes a source file (while a further call may follow):
\* the bytes are put into the file in place, or into the file that
\* TruncateFile has opened.
WriteFile(r, c, n) ==
    /\ clock < MaxRuns
    /\ Counted(n)
    /\ tree[r] # c
    /\ tree' = [tree EXCEPT ![r] = c]
    /\ dirty' = TRUE
    /\ UNCHANGED <<mirror, archive, csFile, trackFile, garbled, clock, cwd,
                   backup_dir, knap, pc, files, changed, store, ts, result, pre,
                   hist, last, local>>

\* The first half of a std::fs::write of another process: the file is
\* opened, which creates or truncates it, and is empty until WriteFile
\* writes the bytes.
TruncateFile(r, n) ==
    /\ clock < MaxRuns
    /\ Counted(n)
    /\ tree[r] # Torn
    /\ tree' = [tree EXCEPT ![r] = Torn]
    /\ dirty' = TRUE
    /\ UNCHANGED <<mirror, archive, csFile, trackFile, garbled, clock, cwd,
                   backup_dir, knap, pc, files, changed, store, ts, result, pre,
                   hist, last, local>>

\* The locals of the engines once the source file r is unlinked: an fs::copy
\* that holds it open goes on reading what the file held.
Deleted(r) ==
    [o \in Engines |->
        IF /\ pc[o] = "mirror"
           /\ local[o].open = "yes"
           /\ local[o].src = "live"
           /\ MirrorFile(o) = Join(ProjectRoot, r)
        THEN [local[o] EXCEPT !.src = tree[r]]
        ELSE local[o]]

\* Another process deletes a source file.
DeleteFile(r, n) ==
    /\ clock < MaxRuns
    /\ Counted(n)
    /\ tree[r] # NoFile
    /\ tree' = [tree EXCEPT ![r] = NoFile]
    /\ dirty' = TRUE
    /\ local' = Deleted(r)
    /\ UNCHANGED <<mirror, archive, csFile, trackFile, garbled, clock, cwd,
                   backup_dir, knap, pc, files, changed, store, ts, result, pre,
                   hist, last>>

\* The steps of a create_backup call in progress.
Step(e) ==
    \/ Enumerate(e)
    \/ Detect(e)
    \/ ArchiveClear(e)
    \/ ArchiveClearFail(e)
    \/ ArchiveDir(e)
    \/ ArchiveOpen(e)
    \/ ArchiveCopy(e)
    \/ MirrorDir(e)
    \/ MirrorOpen(e)
    \/ MirrorCopy(e)
    \/ ChecksumInsert(e)
    \/ ChecksumsOpen(e)
    \/ ChecksumsWrite(e)
    \/ TrackingOpen(e)
    \/ TrackingWrite(e)
    \/ TrackingFail(e)
    \/ Finish(e)
    \/ Fail(e)
    \/ Return(e)

\* One engine instance; the source tree is edited only between calls.
Next ==
    \/ New(1)
    \/ \E sw \in SwitchInputs : Begin(1, sw[1], sw[2], sw[3])
    \/ Step(1)
    \/ Idle /\ \E r \in RelPaths, c \in Contents : WriteFile(r, c, 0)
    \/ Idle /\ \E r \in RelPaths : DeleteFile(r, 0)

Spec == Init /\ [][Next]_vars

\* ------------------------------------------- two engines on one backup root

\* The checksum map of a run that backed up both files with content "A".
BothBackedUp == [k \in AbsPaths |-> Fingerprint("A")]

\* Two engine instances (two processes, or two objects used from two threads)
\* constructed on the same backup root.  The root is as a successful
\* create_backup(false, true, true) over two files of content "A" has left
\* it at second 1; the source files have been written or deleted since.
Init2 ==
    /\ tree \in [RelPaths -> FileStates]
    /\ mirror = [r \in RelPaths |-> "A"]
    /\ archive = EmptyDir
    /\ csFile = [exists |-> TRUE, content |-> BothBackedUp]
    /\ trackFile = [exists |-> TRUE, ts |-> 1, count |-> StoreLen(BothBackedUp)]
    /\ garbled = NotGarbled
    /\ clock = 1
    /\ cwd = ProjectRoot
    /\ backup_dir = BackupCore
    /\ pc = [e \in Engines |-> "idle"]
    /\ files = [e \in Engines |-> <<>>]
    /\ changed = [e \in Engines |-> <<>>]
    /\ store = [e \in Engines |-> BothBackedUp]
    /\ ts = [e \in Engines |-> 1]
    /\ result = [e \in Engines |-> NoResult]
    /\ pre = [e \in Engines |-> NoPre]
    /\ okTree = [r \in RelPaths |-> "A"]
    /\ mirrorOk = [r \in RelPaths |-> TRUE]
    /\ applied = BothBackedUp
    /\ last = [state |-> "ok", sw |-> <<FALSE, TRUE, TRUE>>, by |-> 1]
    /\ dirty = TRUE
    /\ local = [e \in Engines |-> NoLocal]
    /\ knap = NoCall
    /\ edits = 0

\* As Init2, with both source files rewritten since they were backed up.
InitTwo == Init2 /\ tree = [r \in RelPaths |-> "B"]

\* The calls of the two engines interleave step by step.
Next2 ==
    \/ \E e \in Engines : New(e)
    \/ \E e \in Engines, sw \in SwitchInputs : Begin(e, sw[1], sw[2], sw[3])
    \/ \E e \in Engines : Step(e)

Spec2 == InitTwo /\ [][Next2]_vars

\* --------------------------------------- the working directory is changed

\* The process changes its working directory (std::env::set_current_dir in
\* another thread, os.chdir in the embedding program).
Chdir(dir) ==
    /\ cwd # dir
    /\ cwd' = dir
    /\ UNCHANGED <<disk, clock, backup_dir, knap, edits, pc, files, changed, store, ts,
                   result, pre, hist, last, dirty, local>>

\* The calls of one engine, on the backup root an earlier run has written,
\* while the working directory changes at any moment.
NextChdir ==
    \/ \E sw \in SwitchInputs : Begin(1, sw[1], sw[2], sw[3])
    \/ Step(1)
    \/ \E dir \in {ProjectRoot, OtherRoot} : Chdir(dir)

SpecChdir == Init2 /\ [][NextChdir]_vars

\* ------------------------------------------------- the enumerator alone

\* The map of a call that has backed up data_core/x.txt alone.
OneBackedUp ==
    [EmptyStore EXCEPT ![Join(ProjectRoot, XFile)] = Fingerprint("A")]

\* An engine on either backup root and any set of source files; the two
\* JSON files exist below the engine's own backup root alone, and then as
\* an earlier call (at second 1) has written them: a call without
\* candidates, or, when the copy of data_core/x.txt lies in the active
\* backup of the root inside data_core, a call that has backed up that file.
InitEnum ==
    /\ backup_dir \in BackupDirs
    /\ tree \in [EnumPaths -> {"A", NoFile}]
    /\ \A b \in BackupDirs \ {backup_dir} :
          tree[strip_prefix(Join(b, <<CsName>>), ProjectRoot)] = NoFile
    /\ \A b \in BackupDirs :
          tree[strip_prefix(Join(b, <<TrackName>>), ProjectRoot)] =
              tree[strip_prefix(Join(b, <<CsName>>), ProjectRoot)]
    /\ tree[AFile] # NoFile =>
          /\ backup_dir = Join(ProjectRoot, <<"data_core", "bk">>)
          /\ tree[BFile] # NoFile
    /\ mirror = [EmptyDir EXCEPT ![XFile] = tree[AFile]]
    /\ archive = EmptyDir
    /\ csFile =
          [exists |->
              tree[strip_prefix(Join(backup_dir, <<CsName>>), ProjectRoot)]
                  # NoFile,
           content |-> IF tree[AFile] # NoFile THEN OneBackedUp
                       ELSE EmptyStore]
    /\ trackFile = [exists |-> csFile.exists,
                    ts |-> IF csFile.exists THEN 1 ELSE 0,
                    count |-> StoreLen(csFile.content)]
    /\ garbled = NotGarbled
    /\ clock = trackFile.ts
    /\ cwd = ProjectRoot
    /\ pc = [e \in Engines |-> IF e = 1 THEN "idle" ELSE "none"]
    /\ files = [e \in Engines |-> <<>>]
    /\ changed = [e \in Engines |-> <<>>]
    /\ store = [e \in Engines |-> IF e = 1 THEN csFile.content ELSE EmptyStore]
    /\ ts = [e \in Engines |-> IF e = 1 THEN trackFile.ts ELSE 0]
    /\ result = [e \in Engines |-> NoResult]
    /\ pre = [e \in Engines |-> NoPre]
    /\ okTree = mirror
    /\ mirrorOk = [r \in RelPaths |-> mirror[r] # NoFile]
    /\ applied = csFile.content
    /\ last = IF csFile.exists
              THEN [state |-> "ok", sw |-> NoSwitches, by |-> 1]
              ELSE [state |-> "never", sw |-> NoSwitches, by |-> 0]
    /\ dirty = TRUE
    /\ local = [e \in Engines |-> NoLocal]
    /\ knap = NoCall
    /\ edits = 0

\* create_backup is called with any switches and has enumerated its
\* candidates.
NextEnum ==
    \/ \E include_data, include_logs, include_config \in BOOLEAN :
          Begin(1, include_data, include_logs, include_config)
    \/ Enumerate(1)

SpecEnum == InitEnum /\ [][NextEnum]_vars

\* ------------------------------------------------- the constructor alone

\* The checksum maps file_checksums.json can hold.
StoreValues == [AbsPaths -> Fingerprints \cup {<<NoEntry>>}]

\* A backup root as earlier runs or other processes have left it: each JSON
\* file is absent, holds what a run wrote, or holds text that does not parse
\* (its modelled content is then of no account).  No engine is constructed.
InitNew ==
    /\ tree = EmptyDir
    /\ mirror = EmptyDir
    /\ archive = EmptyDir
    /\ garbled \in [JsonFiles -> {"no"} \cup GarbleKinds]
    /\ csFile \in
          {[exists |-> x, content |-> c] : x \in BOOLEAN, c \in StoreValues}
    /\ csFile.exists \/ csFile.content = EmptyStore
    /\ garbled[CsName] # "no" => csFile.exists /\ csFile.content = EmptyStore
    /\ trackFile \in
          {[exists |-> x, ts |-> t, count |-> n] :
              x \in BOOLEAN, t \in 0..MaxRuns, n \in 0..Cardinality(AbsPaths)}
    /\ IF trackFile.exists THEN trackFile.ts > 0
                           ELSE trackFile.ts = 0 /\ trackFile.count = 0
    /\ garbled[TrackName] # "no" =>
          trackFile = [exists |-> TRUE, ts |-> 1, count |-> 0]
    /\ clock = 0
    /\ cwd = ProjectRoot
    /\ backup_dir = BackupCore
    /\ pc = [e \in Engines |-> "none"]
    /\ files = [e \in Engines |-> <<>>]
    /\ changed = [e \in Engines |-> <<>>]
    /\ store = [e \in Engines |-> EmptyStore]
    /\ ts = [e \in Engines |-> 0]
    /\ result = [e \in Engines |-> NoResult]
    /\ pre = [e \in Engines |-> NoPre]
    /\ okTree = EmptyDir
    /\ mirrorOk = [r \in RelPaths |-> FALSE]
    /\ applied = EmptyStore
    /\ last = [state |-> "never", sw |-> NoSwitches, by |-> 0]
    /\ dirty = TRUE
    /\ local = [e \in Engines |-> NoLocal]
    /\ knap = NoCall
    /\ edits = 0

NextNew == \E e \in Engines : New(e)

SpecNew == InitNew /\ [][NextNew]_vars

\* ------------------------------------ the active backup is altered outside

\* Another process overwrites or removes a file of active_backup/ while no
\* call is in progress.
TamperMirror(r, c) ==
    /\ Idle
    /\ clock < MaxRuns
    /\ mirror[r] # c
    /\ mirror' = [mirror EXCEPT ![r] = c]
    /\ mirrorOk' = [mirrorOk EXCEPT ![r] = FALSE]
    /\ UNCHANGED <<tree, archive, csFile, trackFile, garbled, clock, cwd,
                   backup_dir, knap, edits, pc, files, changed, store, ts, result,
                   pre, okTree, applied, last, dirty, local>>

NextTamper ==
    \/ \E sw \in SwitchInputs : Begin(1, sw[1], sw[2], sw[3])
    \/ Step(1)
    \/ \E r \in RelPaths, c \in FileStates : TamperMirror(r, c)

SpecTamper == Init2 /\ [][NextTamper]_vars

\* ------------------------------------ source files are edited during a run

\* Other processes write and delete source files at any moment, also between
\* the steps of a call in progress and between the open and the write of
\* one std::fs::write, MaxEdits operations in all.
NextEdit ==
    \/ \E sw \in SwitchInputs : Begin(1, sw[1], sw[2], sw[3])
    \/ Step(1)
    \/ \E r \in RelPaths, c \in Contents : WriteFile(r, c, 1)
    \/ \E r \in RelPaths : TruncateFile(r, 1)
    \/ \E r \in RelPaths : DeleteFile(r, 1)

SpecEdit == Init2 /\ [][NextEdit]_vars

\* ----------------------------- two engines on one backup root, one at a time

\* Both engines are constructed on the empty backup root; one call of the
\* bound is spent.
InitSeq ==
    /\ tree \in [RelPaths -> FileStates]
    /\ mirror = EmptyDir
    /\ archive = EmptyDir
    /\ csFile = [exists |-> FALSE, content |-> EmptyStore]
    /\ trackFile = [exists |-> FALSE, ts |-> 0, count |-> 0]
    /\ garbled = NotGarbled
    /\ clock = 1
    /\ cwd = ProjectRoot
    /\ backup_dir = BackupCore
    /\ pc = [e \in Engines |-> "idle"]
    /\ files = [e \in Engines |-> <<>>]
    /\ changed = [e \in Engines |-> <<>>]
    /\ store = [e \in Engines |-> EmptyStore]
    /\ ts = [e \in Engines |-> 0]
    /\ result = [e \in Engines |-> NoResult]
    /\ pre = [e \in Engines |-> NoPre]
    /\ okTree = EmptyDir
    /\ mirrorOk = [r \in RelPaths |-> FALSE]
    /\ applied = EmptyStore
    /\ last = [state |-> "never", sw |-> NoSwitches, by |-> 0]
    /\ dirty = TRUE
    /\ local = [e \in Engines |-> NoLocal]
    /\ knap = NoCall
    /\ edits = 0

\* No engine is inside a call, be it the constructor or create_backup.
Quiet == \A e \in Engines : pc[e] \in {"none", "idle"}

\* The engines are called one after the other, never at the same time;
\* source files are written between the calls, and an engine may be
\* constructed anew.
NextSeq ==
    \/ \E e \in Engines : (Quiet \/ pc[e] = "new") /\ New(e)
    \/ \E e \in Engines, sw \in SwitchInputs :
          Quiet /\ Begin(e, sw[1], sw[2], sw[3])
    \/ \E e \in Engines : Step(e)
    \/ Quiet /\ \E r \in RelPaths, c \in Contents : WriteFile(r, c, 0)

SpecSeq == InitSeq /\ [][NextSeq]_vars

\* ----------------------------------- source files are deleted during a run

\* Other processes delete source files at any moment, also between the steps
\* of a call in progress.
NextDelete ==
    \/ \E sw \in SwitchInputs : Begin(1, sw[1], sw[2], sw[3])
    \/ Step(1)
    \/ \E r \in RelPaths : DeleteFile(r, 0)

SpecDelete == Init2 /\ [][NextDelete]_vars

\* -------------------------------------------------- greedy_knapsack calls

\* The engine's part of the state when only greedy_knapsack is called.
backup == <<disk, clock, cwd, backup_dir, pc, files, changed, store, ts,
            result, pre, hist, last, dirty, local, edits>>

KnapCalls ==
    {[state |-> "called", gains |-> g, costs |-> c, budget |-> b,
      build |-> m, selected |-> <<>>] :
        g \in SeqsUpTo(GainValues, MaxItems), c \in SeqsUpTo(Usize, MaxItems),
        b \in Usize, m \in Builds}

InitKnap ==
    /\ tree = EmptyDir
    /\ mirror = EmptyDir
    /\ archive = EmptyDir
    /\ csFile = [exists |-> FALSE, content |-> EmptyStore]
    /\ trackFile = [exists |-> FALSE, ts |-> 0, count |-> 0]
    /\ garbled = NotGarbled
    /\ clock = 0
    /\ cwd = ProjectRoot
    /\ backup_dir = BackupCore
    /\ pc = [e \in Engines |-> "none"]
    /\ files = [e \in Engines |-> <<>>]
    /\ changed = [e \in Engines |-> <<>>]
    /\ store = [e \in Engines |-> EmptyStore]
    /\ ts = [e \in Engines |-> 0]
    /\ result = [e \in Engines |-> NoResult]
    /\ pre = [e \in Engines |-> NoPre]
    /\ okTree = EmptyDir
    /\ mirrorOk = [r \in RelPaths |-> FALSE]
    /\ applied = EmptyStore
    /\ last = [state |-> "never", sw |-> NoSwitches, by |-> 0]
    /\ dirty = FALSE
    /\ local = [e \in Engines |-> NoLocal]
    /\ knap \in KnapCalls
    /\ edits = 0

\* greedy_knapsack runs to its end: it returns the selected indices or panics.
Knapsack ==
    /\ knap.state = "called"
    /\ knap' =
          [knap EXCEPT
              !.state =
                  IF greedy_knapsack(knap.gains, knap.costs, knap.budget,
                                     knap.build).panicked
                  THEN "panicked" ELSE "returned",
              !.selected =
                  greedy_knapsack(knap.gains, knap.costs, knap.budget,
                                  knap.build).selected]
    /\ UNCHANGED backup

NextKnap == Knapsack

SpecKnap == InitKnap /\ [][NextKnap]_vars

\* ----------------------------------------------------------------- claims

SeqSet(q) == {q[i] : i \in 1..Len(q)}

\* The path under which a candidate is addressed in the mirror and archive.
Rel(f) == strip_prefix(f, ProjectRoot)

\* create_backup has returned Ok and the caller holds the BackupResult.
Returned(e) == pc[e] = "returned"

\* The steps of a run that follow archive_changed_files.
AfterArchive == {"mirror", "checksums", "tracking", "finish", "returned"}

\* What the archive must hold after the rotation of run e: the mirror's
\* earlier copy of every changed path that had one, and nothing else.
ExpectedArchive(e) ==
    [r \in RelPaths |->
        IF Join(ProjectRoot, r) \in SeqSet(changed[e])
        THEN pre[e].mirror[r] ELSE NoFile]

\* C1 (diff correctness): when a run has returned successfully, every
\* candidate whose mirror entry was written by an earlier successful run
\* (content C_old) and whose source content is now another C_new has
\* C_old in the archive and C_new in the mirror.
DiffCorrectness ==
    \A e \in Engines : Returned(e) =>
        \A f \in SeqSet(files[e]) :
            (pre[e].mirrorOk[Rel(f)] /\ pre[e].ok[Rel(f)] # tree[Rel(f)]) =>
                /\ archive[Rel(f)] = pre[e].ok[Rel(f)]
                /\ mirror[Rel(f)] = tree[Rel(f)]

\* C1 happens: a successful run over a path edited since its last backup.
DiffCorrectnessWitness ==
    \E e \in Engines : Returned(e) /\
        \E f \in SeqSet(files[e]) :
            /\ pre[e].mirrorOk[Rel(f)]
            /\ pre[e].ok[Rel(f)] = "A"
            /\ tree[Rel(f)] = "B"
            /\ archive[Rel(f)] = "A"

\* C2 (consistency): after a successful run the checksum stored for every
\* candidate, in memory and in file_checksums.json, is the fingerprint of the
\* mirror's copy of it.
Consistency ==
    \A e \in Engines : Returned(e) =>
        \A f \in SeqSet(files[e]) :
            /\ store[e][f] = Fingerprint(mirror[Rel(f)])
            /\ csFile.exists
            /\ csFile.content[f] = Fingerprint(mirror[Rel(f)])

\* C2 happens: a successful run replaced a mirror entry and its checksum,
\* after an earlier call had failed.
ConsistencyWitness ==
    \E e \in Engines : Returned(e) /\ clock = MaxRuns /\
        \E f \in SeqSet(files[e]) :
            /\ pre[e].mirror[Rel(f)] \notin {NoFile, mirror[Rel(f)]}
            /\ pre[e].store[f] \notin {<<NoEntry>>, store[e][f]}
            /\ ~pre[e].mirrorOk[Rel(f)]

\* C3 (idempotence): a successful run that follows a successful run with
\* the same switches, with no source file written or deleted in between,
\* reports files_changed = 0 and leaves the archive as it found it.
Idempotence ==
    \A e \in Engines : (Returned(e) /\ pre[e].repeat) =>
        /\ result[e].files_changed = 0
        /\ archive = pre[e].archive

\* C3 happens: such a second run, over candidates, with a non-empty archive.
IdempotenceWitness ==
    \E e \in Engines :
        /\ Returned(e) /\ pre[e].repeat
        /\ Len(files[e]) = 2
        /\ archive # EmptyDir

\* C4 (archive exactness): once the rotation of a run with a non-empty
\* changed set is done, and until the run has returned, the archive holds
\* exactly the changed paths that had a mirror entry before the run, each
\* with the bytes the mirror held before the run.
ArchiveExactness ==
    \A e \in Engines : (pc[e] \in AfterArchive /\ changed[e] # <<>>) =>
        archive = ExpectedArchive(e)

\* C4 happens: a successful run archived one path and dropped an archive
\* file an earlier run had written for another path.
ArchiveExactnessWitness ==
    \E e \in Engines : Returned(e) /\ changed[e] # <<>> /\
        \E r1, r2 \in RelPaths :
            /\ pre[e].archive[r1] # NoFile /\ archive[r1] = NoFile
            /\ archive[r2] # NoFile

\* C5 (new-file exclusion): after a successful run, a candidate that had
\* neither a mirror entry nor a stored checksum when the run began is in the
\* changed set (so counted in files_changed) and has no file in the archive.
NewFileExclusion ==
    \A e \in Engines : Returned(e) =>
        \A f \in SeqSet(files[e]) :
            (pre[e].mirror[Rel(f)] = NoFile /\ pre[e].store[f] = <<NoEntry>>) =>
                /\ f \in SeqSet(changed[e])
                /\ result[e].files_changed >= 1
                /\ archive[Rel(f)] = NoFile

\* C5 happens: a successful run with a new path beside an archived one.
NewFileExclusionWitness ==
    \E e \in Engines : Returned(e) /\
        \E f \in SeqSet(files[e]) :
            /\ pre[e].mirror[Rel(f)] = NoFile
            /\ pre[e].store[f] = <<NoEntry>>
            /\ archive # EmptyDir

\* C6 (first run): a successful run that began with an empty checksum map
\* and has candidates reports files_changed = files_processed.
FirstRun ==
    \A e \in Engines :
        (Returned(e) /\ pre[e].store = EmptyStore /\ files[e] # <<>>) =>
            result[e].files_changed = result[e].files_processed

\* C6 happens: a successful first run over two candidates.
FirstRunWitness ==
    \E e \in Engines :
        /\ Returned(e) /\ pre[e].store = EmptyStore
        /\ result[e].files_processed = 2

\* C7 (archive before mirror): while a run detects and archives, the mirror
\* is still as the run found it; whatever the archive holds once the
\* rotation is done is the mirror's content from before the run.
ArchiveBeforeMirror ==
    \A e \in Engines :
        /\ pc[e] \in {"enumerate", "detect", "archive"} =>
              mirror = pre[e].mirror
        /\ (pc[e] \in AfterArchive /\ changed[e] # <<>>) =>
              \A r \in RelPaths :
                  archive[r] # NoFile => archive[r] = pre[e].mirror[r]

\* C7 happens: the mirror step has overwritten an entry whose old content
\* the archive holds.
ArchiveBeforeMirrorWitness ==
    \E e \in Engines : pc[e] = "checksums" /\
        \E r \in RelPaths :
            /\ archive[r] # NoFile
            /\ archive[r] = pre[e].mirror[r]
            /\ mirror[r] # pre[e].mirror[r]

\* C8 as stated (persist ordering): whenever no run is in progress,
\* file_checksums.json holds the mapping of the last run that applied all of
\* its archive and mirror steps.
PersistReflectsLastApplied ==
    Idle => csFile.content = applied

\* C8 as amended: until a run has finished its archive and mirror steps
\* and opened file_checksums.json for writing, the file is as the run found
\* it; between the open and the write it is empty; once the run has written
\* it, the archive and mirror steps are complete and the file holds the
\* mapping this run produced.
PersistOrdering ==
    \A e \in Engines :
        /\ (\/ pc[e] \in {"enumerate", "detect", "archive", "mirror"}
            \/ pc[e] = "checksums" /\ local[e].open = "no") =>
              csFile = pre[e].csFile
        /\ (pc[e] = "checksums" /\ local[e].open # "no") =>
              /\ csFile = [exists |-> TRUE, content |-> EmptyStore]
              /\ garbled[CsName] = "text"
              /\ \A f \in SeqSet(files[e]) : mirror[Rel(f)] = tree[Rel(f)]
        /\ pc[e] \in {"tracking", "finish", "returned"} =>
              /\ csFile = [exists |-> TRUE, content |-> applied]
              /\ store[e] = applied
              /\ \A f \in SeqSet(files[e]) : mirror[Rel(f)] = tree[Rel(f)]
              /\ changed[e] # <<>> => archive = ExpectedArchive(e)

\* C8 happens: a run has rewritten the file after replacing a mirror entry
\* and rotating the archive.
PersistOrderingWitness ==
    \E e \in Engines :
        /\ pc[e] = "tracking"
        /\ pre[e].csFile.exists
        /\ csFile # pre[e].csFile
        /\ archive # EmptyDir
        /\ mirror # pre[e].mirror

\* C9 (crash survival): after a successful run, whichever earlier calls
\* failed, every changed path that an earlier successful run backed up has
\* in the archive the content it had at that run, and the checksum map is
\* consistent with the mirror.
CrashSurvival ==
    \A e \in Engines : Returned(e) =>
        /\ \A f \in SeqSet(changed[e]) :
              pre[e].ok[Rel(f)] # NoFile =>
                  archive[Rel(f)] = pre[e].ok[Rel(f)]
        /\ \A f \in SeqSet(files[e]) :
              store[e][f] = Fingerprint(mirror[Rel(f)])

\* C10 (failure reporting): a call that failed has handed its caller a
\* BackupResult with success = false and an error message.
FailureReported ==
    \A e \in Engines :
        (pc[e] = "idle" /\ last.state = "failed" /\ last.by = e) =>
            /\ result[e].kind = "BackupResult"
            /\ result[e].success = FALSE
            /\ result[e].error_message # "None"

\* The steps of create_backup in the order of its source, and the place of a
\* step in that order.
RunOrder ==
    <<"enumerate", "detect", "archive", "mirror", "checksums", "tracking",
      "finish", "returned">>

Pos(step) == CHOOSE i \in 1..Len(RunOrder) : RunOrder[i] = step

InRun == {RunOrder[i] : i \in 1..(Len(RunOrder) - 1)}

\* C11 (short-circuit on failure): a run goes through enumerate, detect,
\* archive (only with a non-empty changed set), mirror, checksums, tracking
\* in that order (detect has nothing to do in a run without candidates);
\* the transition in which a step fails ends the run
\* and changes nothing that a later step writes: a failure in or before the
\* mirror step leaves the checksum map, file_checksums.json and
\* backup_tracking.json alone, a failure in or before the checksum step
\* leaves backup_tracking.json alone.
ShortCircuit ==
    [][\A e \in Engines :
          /\ (pc[e] \in InRun /\ pc'[e] \in InRun \cup {"returned"}
                /\ pc'[e] # pc[e]) =>
                \/ Pos(pc'[e]) = Pos(pc[e]) + 1
                \/ pc[e] = "detect" /\ pc'[e] = "mirror" /\ changed'[e] = <<>>
                \/ pc[e] = "enumerate" /\ pc'[e] = "mirror"
                      /\ files'[e] = <<>>
          /\ (pc[e] = "idle" /\ pc'[e] \notin {"idle", "new"}) =>
                pc'[e] = "enumerate"
          /\ pc'[e] = "archive" => changed'[e] # <<>>
          /\ (pc[e] \in InRun /\ pc'[e] = "idle") =>
                /\ result'[e].kind = "PyErr"
                /\ pc[e] \in {"enumerate", "detect"} => archive' = archive
                /\ pc[e] \in {"enumerate", "detect", "archive"} =>
                      mirror' = mirror
                /\ pc[e] \in {"enumerate", "detect", "archive", "mirror"} =>
                      store' = store /\ csFile' = csFile
                /\ pc[e] \in {"enumerate", "detect", "archive", "mirror",
                              "checksums"} =>
                      trackFile' = trackFile /\ ts' = ts
      ]_vars

\* C11 happens: a call failed in the mirror step after it copied a file, and
\* neither JSON file has been written.
ShortCircuitWitness ==
    /\ last.state = "failed"
    /\ mirror # EmptyDir
    /\ ~csFile.exists
    /\ ~trackFile.exists

\* C12 (corrupt-state recovery): constructing an engine never fails, and an
\* engine constructed on a root whose file_checksums.json (respectively
\* backup_tracking.json) does not parse starts with an empty checksum map
\* (respectively timestamp 0).
CorruptRecovery ==
    \A e \in Engines :
        /\ result[e] # InitError
        /\ pc[e] = "idle" =>
              /\ garbled[CsName] # "no" => store[e] = EmptyStore
              /\ garbled[TrackName] # "no" => ts[e] = 0

\* C13 (unserialized concurrent runs): nothing keeps an engine from
\* starting a call while the other engine is inside one; and when two
\* overlapping calls have both returned, the checksum file is the map of one
\* of the two engines as a whole, or the text of one map followed by the
\* rest of the longer text of the other, which no constructor can parse;
\* the tracking count is that of one of the two engines.  The persisted
\* files are never a merge of the entries of the two runs.
Unserialized ==
    /\ \A e \in Engines :
          (pc[e] = "idle" /\ clock < MaxRuns) =>
              ENABLED Begin(e, FALSE, TRUE, TRUE)
    /\ (Returned(1) /\ Returned(2)) =>
          /\ \/ /\ garbled[CsName] = "no"
                /\ \E w \in Engines : csFile.content = store[w]
             \/ /\ garbled[CsName] = "text"
                /\ \E v \in Engines, w \in Engines :
                      /\ csFile.content = store[v]
                      /\ JsonLen(store[w]) < JsonLen(store[v])
          /\ \E w \in Engines :
                trackFile.count =
                    Cardinality({k \in AbsPaths : store[w][k] # <<NoEntry>>})

\* C13 happens: two overlapping calls have both returned successfully; both
\* detected the same file as changed from the mirrored "A" to "B", yet the
\* archive does not hold "A" for it, and the checksum file lacks what one of
\* the two runs recorded.
UnserializedWitness ==
    /\ Returned(1) /\ Returned(2)
    /\ \E f \in SeqSet(changed[1]) \cap SeqSet(changed[2]) :
          /\ pre[1].mirror[Rel(f)] = "A" /\ pre[2].mirror[Rel(f)] = "A"
          /\ tree[Rel(f)] = "B"
          /\ archive[Rel(f)] # "A"
    /\ \E e \in Engines : csFile.content # store[e]

\* C14 (stale store entries preserved): no step of a run, failing or not,
\* changes the engine's checksum entry of a path outside the run's candidate
\* set or removes any entry; and the file the run writes holds, once the
\* write is complete, for every such path the entry the engine held before
\* the write.
StaleEntriesPreserved ==
    [][\A e \in Engines : pc[e] \in InRun =>
          /\ \A k \in AbsPaths \ SeqSet(files[e]) : store'[e][k] = store[e][k]
          /\ \A k \in AbsPaths :
                store[e][k] # <<NoEntry>> => store'[e][k] # <<NoEntry>>
          /\ (csFile' # csFile /\ garbled'[CsName] = "no") =>
                \A k \in AbsPaths \ SeqSet(files[e]) :
                    csFile'.content[k] = store[e][k]
      ]_vars

\* C14 happens: a successful run over one candidate has rewritten the file,
\* and the entry of a path whose source file is deleted is still there, in
\* memory and in the file.
StaleEntriesPreservedWitness ==
    \E e \in Engines : Returned(e) /\ Len(files[e]) = 1 /\
        \E k \in AbsPaths \ SeqSet(files[e]) :
            /\ tree[Rel(k)] = NoFile
            /\ store[e][k] \in Fingerprints
            /\ csFile.content[k] = store[e][k]
            /\ csFile # pre[e].csFile

\* C15 (mirror monotonic growth): no step removes a mirror entry, and the
\* entry of a path whose source file is deleted keeps its bytes; when a run
\* has returned successfully the mirror has an entry for each of its
\* candidates.
MirrorGrowth ==
    /\ [](\A e \in Engines : Returned(e) =>
            \A f \in SeqSet(files[e]) : mirror[Rel(f)] # NoFile)
    /\ [][\A r \in RelPaths : mirror[r] # NoFile =>
             /\ mirror'[r] # NoFile
             /\ tree[r] = NoFile => mirror'[r] = mirror[r]
         ]_vars

\* C15 happens: a run over another candidate has returned successfully
\* while the mirror still holds the entry of a deleted source file.
MirrorGrowthWitness ==
    \E e \in Engines : Returned(e) /\ files[e] # <<>> /\
        \E r \in RelPaths :
            /\ tree[r] = NoFile
            /\ mirror[r] \in Contents
            /\ mirror # pre[e].mirror

\* Number of entries of a checksum map.
Entries(m) == Cardinality({k \in AbsPaths : m[k] # <<NoEntry>>})

\* C16 (tracking count): once a run has written backup_tracking.json, and
\* until it has returned, the backup_count in the file is the number of
\* entries of the engine's checksum map, stale entries included, which is the
\* number of entries of the file_checksums.json the same run has written.
TrackingCount ==
    \A e \in Engines : pc[e] \in {"finish", "returned"} =>
        /\ trackFile.exists
        /\ trackFile.count = Entries(store[e])
        /\ trackFile.count = Entries(csFile.content)
        /\ trackFile.ts = ts[e]

\* C16 happens: a run over one candidate has written a count of two, one
\* of the entries counted being that of a path outside its candidate set.
TrackingCountWitness ==
    \E e \in Engines :
        /\ Returned(e)
        /\ Len(files[e]) = 1
        /\ trackFile.count = 2
        /\ store[e][Join(ProjectRoot, XFile)] = store[e][Join(ProjectRoot, CFile)]

\* C17 (success result): the BackupResult of a successful call has
\* success = true, files_processed the size of the candidate set,
\* files_changed the size of the changed set (a subset of the candidates, so
\* not the larger), backup_path the active_backup directory of the backup
\* root, and no error message.
SuccessResult ==
    \A e \in Engines : Returned(e) =>
        /\ result[e].kind = "BackupResult"
        /\ result[e].success = TRUE
        /\ result[e].files_processed = Cardinality(SeqSet(files[e]))
        /\ result[e].files_changed = Cardinality(SeqSet(changed[e]))
        /\ SeqSet(changed[e]) \subseteq SeqSet(files[e])
        /\ result[e].files_changed <= result[e].files_processed
        /\ result[e].backup_path = backup_dir \o <<"active_backup">>
        /\ result[e].error_message = "None"

\* C17 happens: a successful call over two candidates, one of them changed.
SuccessResultWitness ==
    \E e \in Engines :
        /\ Returned(e)
        /\ result[e].files_processed = 2
        /\ result[e].files_changed = 1

\* C18 (stop-set pruning): whatever the switches, no enumerated candidate
\* has a component .git, __pycache__, .pytest_cache or node_modules.
StopSetPruning ==
    \A e \in Engines : \A f \in SeqSet(files[e]) : ~HasStopComponent(f)

\* C19 (no self-inclusion): no enumerated candidate lies below the backup
\* root the engine was constructed on.
NoSelfInclusion ==
    \A e \in Engines : \A f \in SeqSet(files[e]) :
        ~starts_with(f, backup_dir)

\* The candidate f does not lie below the directory dir.
OutOfRoot(f, dir) == Len(f) < Len(dir) \/ SubSeq(f, 1, Len(dir)) # dir

\* C20 (out-of-root skip): the loop of the archive step writes no archive
\* file and the loop of the mirror step writes no mirror entry for a
\* candidate that does not lie below the working directory the step has
\* read, and the archive holds no file for it when the step returns.
OutOfRootSkip ==
    [][\A e \in Engines :
          /\ (pc[e] = "archive" /\ local[e].at = "loop") =>
                \A f \in SeqSet(changed[e]) : OutOfRoot(f, local[e].dir) =>
                    archive'[Rel(f)] = archive[Rel(f)]
          /\ (pc[e] = "archive" /\ pc'[e] = "mirror") =>
                \A f \in SeqSet(changed[e]) : OutOfRoot(f, local[e].dir) =>
                    archive'[Rel(f)] = NoFile
          /\ (pc[e] = "mirror" /\ local[e].at = "loop") =>
                \A f \in SeqSet(files[e]) : OutOfRoot(f, local[e].dir) =>
                    mirror'[Rel(f)] = mirror[Rel(f)]
      ]_vars

\* C20 happens: a call has returned successfully although the working
\* directory changed after it had enumerated and archived a changed file:
\* the mirror step skipped the file, whose mirror entry is the old one.
OutOfRootSkipWitness ==
    \E e \in Engines : Returned(e) /\ result[e].success /\
        \E f \in SeqSet(changed[e]) :
            /\ OutOfRoot(f, cwd)
            /\ archive[Rel(f)] = "A"
            /\ tree[Rel(f)] = "B"
            /\ mirror[Rel(f)] = "A"

\* C21 (relative-path keys): every key under which an engine's checksum map
\* or file_checksums.json holds a fingerprint is a path relative to the
\* project root, one under which the mirror and the archive address a file.
RelativeKeys ==
    /\ \A e \in Engines : \A k \in DOMAIN store[e] :
          store[e][k] # <<NoEntry>> =>
              ~starts_with(k, ProjectRoot) /\ k \in DOMAIN mirror
    /\ \A k \in DOMAIN csFile.content :
          csFile.content[k] # <<NoEntry>> =>
              ~starts_with(k, ProjectRoot) /\ k \in DOMAIN mirror

\* C22 (knapsack within budget): the indices greedy_knapsack returns for
\* vectors of equal length are valid, distinct, of positive cost, and their
\* costs sum to at most the budget.
RECURSIVE CostSum(_, _)
CostSum(costs, sel) ==
    IF sel = <<>> THEN 0 ELSE costs[sel[1] + 1] + CostSum(costs, Tail(sel))

KnapsackWithinBudget ==
    (knap.state = "returned" /\ Len(knap.gains) = Len(knap.costs)) =>
        /\ \A i \in 1..Len(knap.selected) :
              /\ knap.selected[i] \in 0..(Len(knap.costs) - 1)
              /\ knap.costs[knap.selected[i] + 1] > 0
              /\ \A j \in 1..Len(knap.selected) :
                    knap.selected[i] = knap.selected[j] => i = j
        /\ CostSum(knap.costs, knap.selected) <= knap.budget

\* C23 (changed set): once change detection has returned, the changed set
\* holds exactly the candidates that have no stored fingerprint or a stored
\* fingerprint other than that of their current content, and never a
\* candidate whose stored fingerprint is that of its current content.
Detected == {"archive", "mirror"}

ChangedSetExact ==
    \A e \in Engines : pc[e] \in Detected =>
        /\ SeqSet(changed[e]) =
              {f \in SeqSet(files[e]) :
                  \/ store[e][f] = <<NoEntry>>
                  \/ store[e][f] # <<"sha256", tree[Rel(f)]>>}
        /\ \A f \in SeqSet(changed[e]) :
              store[e][f] # <<"sha256", tree[Rel(f)]>>

\* Detection has told an edited candidate from an unchanged one, both with a
\* stored fingerprint.
ChangedSetExactWitness ==
    \E e \in Engines : \E f, g \in SeqSet(files[e]) :
        /\ pc[e] \in Detected
        /\ store[e][f] # <<NoEntry>>
        /\ store[e][f] # <<"sha256", tree[Rel(f)]>>
        /\ f \in SeqSet(changed[e])
        /\ store[e][g] = <<"sha256", tree[Rel(g)]>>
        /\ g \notin SeqSet(changed[e])

\* C24 (unconditional clearing): archive_changed_files runs exactly in the
\* runs whose changed set is not empty; past that step the archive holds
\* nothing the previous archive held, only the mirror's earlier copies of
\* this run's changed paths, and it holds no file at all when no changed
\* path had a mirror entry.  A run without changes leaves the archive alone.
OnlyNewPaths(e) ==
    /\ changed[e] # <<>>
    /\ \A f \in SeqSet(changed[e]) : pre[e].mirror[Rel(f)] = NoFile

ArchiveRotation ==
    \A e \in Engines :
        /\ pc[e] = "archive" => changed[e] # <<>>
        /\ (pc[e] \in AfterArchive /\ changed[e] = <<>>) =>
              archive = pre[e].archive
        /\ (pc[e] \in AfterArchive /\ changed[e] # <<>>) =>
              \A r \in RelPaths :
                  archive[r] =
                      IF Join(ProjectRoot, r) \in SeqSet(changed[e])
                      THEN pre[e].mirror[r] ELSE NoFile
        /\ (pc[e] \in AfterArchive /\ OnlyNewPaths(e)) =>
              \A r \in RelPaths : archive[r] = NoFile

\* A successful run whose changed paths were all new emptied an archive that
\* held a file.
ArchiveRotationWitness ==
    \E e \in Engines :
        /\ Returned(e)
        /\ OnlyNewPaths(e)
        /\ \E r \in RelPaths : pre[e].archive[r] # NoFile
        /\ \A r \in RelPaths : archive[r] = NoFile

\* C25 (mirror covers all candidates): when create_backup returns Ok, the
\* active backup holds the current content of every candidate, changed or
\* not, whatever it held for that path before the run.
MirrorCoversAll ==
    \A e \in Engines : Returned(e) =>
        \A f \in SeqSet(files[e]) : mirror[Rel(f)] = tree[Rel(f)]

\* A successful run left a candidate out of the changed set, its stored
\* fingerprint matching, and rewrote its mirror entry, which had been altered
\* or removed.
MirrorCoversAllWitness ==
    \E e \in Engines : \E f, g \in SeqSet(files[e]) :
        /\ Returned(e)
        /\ f \notin SeqSet(changed[e])
        /\ g \notin SeqSet(changed[e])
        /\ pre[e].mirror[Rel(f)] = NoFile
        /\ pre[e].mirror[Rel(g)] \notin {NoFile, tree[Rel(g)]}
        /\ mirror[Rel(f)] = tree[Rel(f)]
        /\ mirror[Rel(g)] = tree[Rel(g)]

\* C26 (deletion before detection): up to change detection a run has altered
\* nothing, and a run that is in detection with a candidate deleted that it
\* has yet to read does not leave detection but with an error, leaving the
\* archive, the mirror, both JSON files and the engine's checksum map as
\* they were.
DeletedCandidate(e) ==
    \E i \in (local[e].i + 1)..Len(files[e]) : tree[Rel(files[e][i])] = NoFile

DetectionFailureClean ==
    /\ [](\A e \in Engines : pc[e] \in {"enumerate", "detect"} =>
            /\ mirror = pre[e].mirror
            /\ archive = pre[e].archive
            /\ csFile = pre[e].csFile
            /\ store[e] = pre[e].store)
    /\ [][\A e \in Engines :
            (pc[e] = "detect" /\ DeletedCandidate(e) /\ pc'[e] # "detect") =>
                /\ pc'[e] = "idle"
                /\ result'[e].kind = "PyErr"
                /\ ~result'[e].success
                /\ UNCHANGED <<mirror, archive, csFile, trackFile, garbled,
                               store, ts>>]_vars

\* A run is at change detection and has read a candidate; the next one,
\* which it enumerated and had backed up earlier, is gone, and the read of it
\* raises the error.
DetectionFailureWitness ==
    \E e \in Engines :
        /\ pc[e] = "detect"
        /\ local[e].i = 1
        /\ LET f == files[e][2]
           IN  tree[Rel(f)] = NoFile /\ store[e][f] # <<NoEntry>>
        /\ ENABLED (Detect(e) /\ pc'[e] = "idle"
                    /\ result'[e].kind = "PyErr")
        /\ ~ENABLED (Detect(e) /\ pc'[e] # "idle")

\* C27 (recomputed checksum): when create_backup returns Ok, the checksum
\* update_file_checksums stored and saved for each candidate is the one
\* get_changed_files computed for it in the same run, also while other
\* processes edit the source files.
RecomputedChecksumSame ==
    \A e \in Engines : Returned(e) =>
        \A f \in SeqSet(files[e]) :
            /\ store[e][f] = pre[e].seen[f]
            /\ csFile.content[f] = pre[e].seen[f]

\* C28 (store read only at construction): a run of an engine whose own
\* checksum map is empty reports every candidate as changed and rotates the
\* archive with the mirror's copies of the candidates, whatever
\* file_checksums.json holds by then; so does the run of the second engine
\* that follows a successful run of the first with no file written between.
StoreReadAtConstruction ==
    \A e \in Engines : (Returned(e) /\ pre[e].store = EmptyStore) =>
        /\ changed[e] = files[e]
        /\ result[e].files_changed = result[e].files_processed
        /\ files[e] # <<>> =>
              \A r \in RelPaths :
                  archive[r] =
                      IF Join(ProjectRoot, r) \in SeqSet(files[e])
                      THEN pre[e].mirror[r] ELSE NoFile

\* The second engine returns from a run that repeated the successful run of
\* the first: file_checksums.json held the current checksum of every
\* candidate, the engine's own map held none, every candidate was reported
\* changed and the archive holds the mirror's copy of each.
StoreReadAtConstructionWitness ==
    \E e \in Engines :
        /\ Returned(e)
        /\ pre[e].repeat
        /\ pre[e].store = EmptyStore
        /\ Len(files[e]) = 2
        /\ \A f \in SeqSet(files[e]) :
              /\ pre[e].csFile.content[f] = pre[e].seen[f]
              /\ pre[e].mirror[Rel(f)] # NoFile
              /\ archive[Rel(f)] = pre[e].mirror[Rel(f)]
        /\ result[e].files_changed = 2

\* C29 (memory equals file): whenever no call is in progress, the checksum
\* map the engine holds is the content of file_checksums.json, also after a
\* call that failed inside update_file_checksums.
MemoryMatchesFile ==
    (Idle /\ pc[1] = "idle") =>
        store[1] = (IF csFile.exists THEN csFile.content ELSE EmptyStore)

\* C30 (switches): of the files that exist, those below config/ are
\* candidates exactly when include_config is set, those below log/ exactly
\* when include_logs is set, and every other file is a candidate or not
\* whatever include_data is; a file that does not exist is no candidate, and
\* the enumeration succeeds whichever directories are missing.  (The
\* enumeration has returned when the call is at its first read of a
\* candidate or, without candidates, at the write of file_checksums.json.)
Enumerated(r) == Join(ProjectRoot, r) \in SeqSet(files[1])

\* The files of the core directories and the main files that are backed up.
AlwaysBackedUp(r) ==
    \/ Len(r) = 1 /\ r[1] \in main_files
    \/ /\ r[1] \in core_dirs
       /\ \A i \in 1..Len(r) : r[i] \notin stop_set

SwitchesSelect ==
    pc[1] \in {"detect", "checksums"} =>
        /\ Len(files[1]) = Cardinality(SeqSet(files[1]))
        /\ \A f \in SeqSet(files[1]) :
              /\ Len(f) > Len(ProjectRoot)
              /\ SubSeq(f, 1, Len(ProjectRoot)) = ProjectRoot
              /\ Rel(f) \in EnumPaths
        /\ \A r \in EnumPaths :
              /\ Enumerated(r) => tree[r] # NoFile
              /\ (tree[r] # NoFile /\ r[1] = "config") =>
                    (Enumerated(r) <=> pre[1].sw[3])
              /\ (tree[r] # NoFile /\ r[1] = "log") =>
                    (Enumerated(r) <=> pre[1].sw[2])
              /\ (tree[r] # NoFile /\ r[1] \notin {"config", "log"}) =>
                    (Enumerated(r) <=> AlwaysBackedUp(r))

\* A call with include_logs alone has enumerated a log file and a data file
\* and has left out the config files; no main file exists.
SwitchesSelectWitness ==
    /\ pc[1] = "detect"
    /\ pre[1].sw = <<FALSE, TRUE, FALSE>>
    /\ tree[XFile] # NoFile /\ Enumerated(XFile)
    /\ tree[LFile] # NoFile /\ Enumerated(LFile)
    /\ tree[CFile] # NoFile /\ ~Enumerated(CFile)
    /\ tree[GFile] # NoFile /\ ~Enumerated(GFile)
    /\ tree[MFile] = NoFile
====
